---- MODULE Spec2Model ----
(***************************************************************************)
(* fvpatcher (main.go): a manifest is resolved through a cache file, then  *)
(* a delete pass and a download pass reconcile a local directory with it.  *)
(*                                                                         *)
(* The program is single-threaded.  One action models manifest resolution  *)
(* (DownloadFileList and main's check of its error), one action models one *)
(* iteration of each pass's loop, and one action models each loop's exit   *)
(* (the count that is printed).                                            *)
(*                                                                         *)
(* Abstractions.  File contents and response bodies are numbers in Data    *)
(* (0 is the empty byte sequence).  MD5 is a fixed total function on Data  *)
(* with a finite range, so two contents may share a digest.  The bytes of  *)
(* a manifest file are an index into Docs (0 is the empty file, which the  *)
(* YAML decoder accepts as the zero manifest; Len(Docs)+1 is text that is  *)
(* not a manifest).  The advisory fields Date and Size of an entry are not *)
(* read by the program and are left out.  Entry names are clean relative   *)
(* names, so filepath.Join only inserts the separator.  The paths of the   *)
(* tree are siblings; what a directory holds is not modelled, so removing  *)
(* one may succeed (it is empty) or fail.  Times are whole days.           *)
(*                                                                         *)
(* Calls into the operating system that can fail for reasons outside the   *)
(* program (os.Remove, os.MkdirAll, os.Create, Write) choose their result  *)
(* nondeterministically, as does the remote server.                        *)
(***************************************************************************)
EXTENDS Integers, Sequences, FiniteSets, TLC

VARIABLES
    pc,                 \* "resolve", "deletes", "downloads", "done", "failed"
    arg,                \* the parsed command line (main.go:18-23)
    cfg,                \* the settings root: path of a cache file -> file
    cwdFile,            \* the file named filelistName in the working directory
    cwdIsSettingsRoot,  \* whether the working directory is the settings root
    list,               \* the manifest main holds
    fs,                 \* the installation tree: path -> status
    i,                  \* index of the next entry of the running loop
    deleteCount,
    downloadCount,
    requests,           \* every HTTP request made, with the response it got
    errs,               \* the per-entry errors printed so far, in order
    printed,            \* the counts written to the console (-1: not yet)
    fs0,                \* fs when the run started
    fsPass,             \* fs when the download pass started
    cfg0,               \* cfg when the run started
    call,               \* the arguments main passed to DownloadFileList
    touched,            \* paths of the settings root DownloadFileList used
    hashed,             \* indices of the downloads entries md5OfFile was called on
    resolved            \* what DownloadFileList returned: "pending", "ok", "error"

vars == <<pc, arg, cfg, cwdFile, cwdIsSettingsRoot, list, fs, i,
          deleteCount, downloadCount, requests, errs, printed, fs0, fsPass, cfg0,
          call, touched, hashed, resolved>>

----------------------------------------------------------------------------
(* Bounds *)

MaxData == 2
MaxEntries == 2
MaxAge == 8

(* Program constant: the maxDays argument of isCachedFileTooOld. *)
MaxDays == 7

Data == 0..MaxData
Names == {"a", "b"}
rootPath == "eq"

----------------------------------------------------------------------------
(* Content Hasher *)

\* a fixed function of the bytes with two values, so that distinct contents
\* can share a digest
md5OfData(data) == data % 2

Hashes == {md5OfData(d) : d \in Data}

----------------------------------------------------------------------------
(* The file system as the program observes it *)

Absent == [kind |-> "absent", data |-> 0]
\* no file at the path, and a component of the path is not a directory
NotDir == [kind |-> "enotdir", data |-> 0]
Dir == [kind |-> "dir", data |-> 0]
File(d) == [kind |-> "file", data |-> d]

Status == {Absent, NotDir, Dir} \cup {File(d) : d \in Data}

Join(root, name) == root \o "/" \o name

Paths == {Join(rootPath, n) : n \in Names}

\* os.Stat: "ok", or the error it returns
Stat(st) ==
    CASE st.kind = "absent" -> "ENOENT"
      [] st.kind = "enotdir" -> "ENOTDIR"
      [] OTHER -> "ok"

IsNotExist(err) == err = "ENOENT"

\* variant: only a regular file counts as existing
fileOrDirExistsFilesOnly(st) == st.kind = "file"

fileOrDirExists(st) ==
    IF Stat(st) # "ok" /\ IsNotExist(Stat(st)) THEN FALSE ELSE TRUE

\* variant: the error is dropped and the digest of what was read returned
md5OfFileIgnoresError(st) == [err |-> FALSE, sum |-> md5OfData(st.data)]

\* md5OfFile: os.Open fails on a path that cannot be resolved, and reading
\* a directory fails
md5OfFile(st) ==
    IF st.kind = "file"
    THEN [err |-> FALSE, sum |-> md5OfData(st.data)]
    ELSE [err |-> TRUE, sum |-> 0]

\* os.Remove: the results the call can have on an existing path
RemoveOutcomes(st) ==
    IF st.kind \in {"file", "dir"}
    THEN {[st |-> Absent, err |-> FALSE], [st |-> st, err |-> TRUE]}
    ELSE {[st |-> st, err |-> TRUE]}

\* variant: the file is created and nothing is written to it
writeFileCreatesOnly(st, data) ==
    IF st.kind \in {"file", "absent"}
    THEN {[st |-> File(0), err |-> FALSE]}
    ELSE {[st |-> st, err |-> TRUE]}

\* variant: a file whose write failed is removed
writeFileRemovesOnError(st, data) ==
    IF st.kind \in {"file", "absent"}
    THEN {[st |-> File(data), err |-> FALSE], [st |-> Absent, err |-> TRUE]}
    ELSE {[st |-> st, err |-> TRUE]}

\* writeFile: os.Create then Write.  Create may fail (nothing changes), or
\* Write may fail after Create truncated the file.
writeFile(st, data) ==
    IF st.kind \in {"file", "absent"}
    THEN {[st |-> File(data), err |-> FALSE],
          [st |-> st, err |-> TRUE],
          [st |-> File(0), err |-> TRUE]}
    ELSE {[st |-> st, err |-> TRUE]}

----------------------------------------------------------------------------
(* Remote Fetcher *)

StatusCodes == {200, 404}

NetErr == [kind |-> "neterr", status |-> 0, body |-> 0]

Responses(bodies) ==
    {NetErr} \cup
    {[kind |-> "http", status |-> s, body |-> b] : s \in StatusCodes, b \in bodies}

\* variant: a transport error is dropped and an empty body returned
fetchUrlSwallowsError(resp) ==
    [err |-> FALSE, data |-> IF resp.kind = "neterr" THEN 0 ELSE resp.body]

\* fetchUrl: client.Get fails on a transport error only; the body of any
\* response is read and returned
fetchUrl(resp) ==
    IF resp.kind = "neterr"
    THEN [err |-> TRUE, data |-> 0]
    ELSE [err |-> FALSE, data |-> resp.body]

----------------------------------------------------------------------------
(* Manifests *)

Entry(n, h) == [Name |-> n, MD5 |-> h]

ZeroList ==
    [Version |-> "", Deletes |-> <<>>, DownloadPrefix |-> "", Downloads |-> <<>>]

Docs ==
    << [Version |-> "1", DownloadPrefix |-> "p/",
        Deletes |-> <<Entry("a", 0)>>,
        Downloads |-> <<Entry("b", 1)>>],
       [Version |-> "2", DownloadPrefix |-> "q/",
        Deletes |-> <<>>,
        Downloads |-> <<Entry("a", 0), Entry("b", 1)>>],
       [Version |-> "3", DownloadPrefix |-> "p/",
        Deletes |-> <<Entry("a", 0), Entry("b", 0)>>,
        Downloads |-> <<Entry("a", 1)>>] >>

ManifestBytes == 0..(Len(Docs) + 1)

\* yaml.Unmarshal into a fileListYaml
yamlUnmarshal(bytes) ==
    IF bytes = 0 THEN [err |-> FALSE, list |-> ZeroList]
    ELSE IF bytes \in 1..Len(Docs) THEN [err |-> FALSE, list |-> Docs[bytes]]
    ELSE [err |-> TRUE, list |-> ZeroList]

SeqsUpTo(S, n) == UNION {[1..k -> S] : k \in 0..n}

UniqueNames(s) == \A j, k \in 1..Len(s) : s[j].Name = s[k].Name => j = k

\* every manifest within the bounds whose downloads name each file once
AllManifests ==
    {[Version |-> "1", DownloadPrefix |-> "p/", Deletes |-> del, Downloads |-> dl] :
        del \in SeqsUpTo({Entry(n, 0) : n \in Names}, MaxEntries),
        dl \in {s \in SeqsUpTo({Entry(n, h) : n \in Names, h \in Hashes}, MaxEntries) :
                    UniqueNames(s)}}

----------------------------------------------------------------------------
(* Manifest Cache *)

\* variant: the expansion is left out of the name
filelistNameOfClient(a) == "filelist_" \o a.Client \o ".yml"

filelistName(a) == "filelist_" \o a.Client \o "." \o a.Expansion \o ".yml"

getSettingsRoot == "home/.config/fvpatcher"

filelistFullPath(a) == Join(getSettingsRoot, filelistName(a))

filelistURL(a) ==
    "https://" \o a.Expansion \o ".fvproject.com/" \o a.Client
        \o "/filelist_" \o a.Client \o ".yml"

\* a file of the settings root or of the working directory: its age in days
\* and its bytes
CfgFile(age, bytes) == [kind |-> "file", age |-> age, data |-> bytes]
CfgAbsent == [kind |-> "absent", age |-> 0, data |-> 0]
CfgNotDir == [kind |-> "enotdir", age |-> 0, data |-> 0]

\* the cache file of this run, now and when the run started
cacheFile == cfg[filelistFullPath(arg)]
cache0 == cfg0[filelistFullPath(arg)]

\* variant: the comparison of the two times is reversed
isCachedFileTooOldReversed(f, maxDays) ==
    IF Stat(f) # "ok" THEN TRUE ELSE f.age < maxDays

\* isCachedFileTooOld: mod.Before(now.AddDate(0, 0, -maxDays))
isCachedFileTooOld(f, maxDays) ==
    IF Stat(f) # "ok" THEN TRUE ELSE f.age > maxDays

cacheInvalid(f) == ~fileOrDirExists(f) \/ isCachedFileTooOld(f, MaxDays)

\* writeFile on a file of the settings root
writeCfgFile(f, data) ==
    IF f.kind \in {"file", "absent"}
    THEN {[f |-> CfgFile(0, data), err |-> FALSE],
          [f |-> f, err |-> TRUE],
          [f |-> CfgFile(0, 0), err |-> TRUE]}
    ELSE {[f |-> f, err |-> TRUE]}

\* the file os.ReadFile(filelistName) opens: the name is relative, so it is
\* looked up in the working directory
readTarget(cache, cwd, same) == IF same THEN cache ELSE cwd

\* a line the program prints on an error it survives
Err(kind, name) == [kind |-> kind, name |-> name]

\* main.go:33-34 and 39-40: resolution succeeded, the delete pass starts
StartDeletes(l) ==
    /\ pc' = "deletes"
    /\ list' = l
    /\ i' = 1
    /\ deleteCount' = 0
    /\ printed' = [printed EXCEPT !.attemptedDeletes = Len(l.Deletes)]

\* log.Fatal: the process exits
Fatal ==
    /\ pc' = "failed"
    /\ UNCHANGED <<list, i, deleteCount, printed>>

\* variant: main goes on whatever DownloadFileList returned
mainExitsNever(err) == FALSE

\* main.go:29: if err != nil
mainExits(err) == err

\* DownloadFileList returns (l, err) and main acts on it (main.go:28-34)
Return(err, l) ==
    /\ resolved' = IF err THEN "error" ELSE "ok"
    /\ IF mainExits(err) THEN Fatal ELSE StartDeletes(l)

\* the rest of DownloadFileList once the cache is known to be present or
\* was refreshed: read, parse, and main's check
ReadAndParse(cache) ==
    LET f == readTarget(cache, cwdFile, cwdIsSettingsRoot)
        parsed == yamlUnmarshal(f.data)
    IN  IF f.kind # "file" \/ parsed.err
        THEN Return(TRUE, ZeroList)
        ELSE Return(FALSE, parsed.list)

Resolve ==
    /\ pc = "resolve"
    /\ UNCHANGED <<arg, cwdFile, cwdIsSettingsRoot, fs, downloadCount, errs, fs0, fsPass,
                   cfg0, hashed>>
    /\ call' = [clientName |-> arg.Client, expansion |-> arg.Expansion]
    /\ touched' = {filelistFullPath(arg)}
    /\ IF cacheInvalid(cacheFile)
       THEN \E resp \in Responses(ManifestBytes) :
              /\ requests' = Append(requests, [url |-> filelistURL(arg), resp |-> resp])
              /\ LET r == fetchUrl(resp)
                 IN  IF r.err
                     THEN cfg' = cfg /\ Return(TRUE, ZeroList)
                     ELSE \E mkdirOk \in BOOLEAN :
                            IF ~mkdirOk
                            THEN cfg' = cfg /\ Return(TRUE, ZeroList)
                            ELSE \E w \in writeCfgFile(cacheFile, r.data) :
                                   /\ cfg' = [cfg EXCEPT ![filelistFullPath(arg)] = w.f]
                                   /\ IF w.err THEN Return(TRUE, ZeroList)
                                               ELSE ReadAndParse(w.f)
       ELSE /\ UNCHANGED <<requests, cfg>>
            /\ ReadAndParse(cacheFile)

----------------------------------------------------------------------------
(* Reconciler: delete pass *)

\* variant: an entry is counted whether or not its removal succeeded
countRemovalAlways(count, err) == count + 1

\* main.go:46-50
countRemoval(count, err) == IF err THEN count ELSE count + 1

\* variant: the loop is left after its first entry
deleteLoopDoneAfterFirst(idx, l) == idx > 1 \/ idx > Len(l.Deletes)

\* main.go:41: the range loop over list.Deletes has no entry left
deleteLoopDone(idx, l) == idx > Len(l.Deletes)

DeleteStep ==
    /\ pc = "deletes"
    /\ ~deleteLoopDone(i, list)
    /\ LET del == list.Deletes[i]
           fullPath == Join(rootPath, del.Name)
       IN  IF fileOrDirExists(fs[fullPath])
           THEN \E o \in RemoveOutcomes(fs[fullPath]) :
                  /\ fs' = [fs EXCEPT ![fullPath] = o.st]
                  /\ errs' = IF o.err THEN Append(errs, Err("remove", del.Name)) ELSE errs
                  /\ deleteCount' = countRemoval(deleteCount, o.err)
           ELSE UNCHANGED <<fs, errs, deleteCount>>
    /\ i' = i + 1
    /\ UNCHANGED <<pc, arg, cfg, cwdFile, cwdIsSettingsRoot, list,
                   downloadCount, requests, printed, fs0, fsPass, cfg0, call, touched,
                   hashed, resolved>>

\* main.go:53, then main.go:35 and 57-58: the download pass starts
DeleteFinish ==
    /\ pc = "deletes"
    /\ deleteLoopDone(i, list)
    /\ pc' = "downloads"
    /\ i' = 1
    /\ downloadCount' = 0
    /\ fsPass' = fs
    /\ printed' = [printed EXCEPT !.deleted = deleteCount,
                                  !.attemptedDownloads = Len(list.Downloads)]
    /\ UNCHANGED <<arg, cfg, cwdFile, cwdIsSettingsRoot, list, fs,
                   deleteCount, requests, errs, fs0, cfg0, call, touched,
                   hashed, resolved>>

----------------------------------------------------------------------------
(* Reconciler: download pass *)

fileURL(l, dl) == l.DownloadPrefix \o dl.Name

\* variant: every entry is fetched
needDownloadAlways(st, dl) == TRUE

\* main.go:61-77, for a path whose digest could be computed or that does
\* not exist
needDownload(st, dl) ==
    IF fileOrDirExists(st) THEN md5OfFile(st).sum # dl.MD5 ELSE TRUE

\* variant: fetched bytes are written whatever their digest
md5MismatchAlways(downloadedMD5, dl) == TRUE

\* main.go:87
md5Mismatch(downloadedMD5, dl) == downloadedMD5 # dl.MD5

DownloadStep ==
    /\ pc = "downloads"
    /\ i <= Len(list.Downloads)
    /\ UNCHANGED <<arg, cfg, cwdFile, cwdIsSettingsRoot, list,
                   deleteCount, printed, fs0, fsPass, cfg0, call,
                   touched, resolved>>
    /\ LET dl == list.Downloads[i]
           fullPath == Join(rootPath, dl.Name)
           st == fs[fullPath]
       IN  /\ hashed' = IF fileOrDirExists(st) THEN hashed \cup {i} ELSE hashed
           /\ IF fileOrDirExists(st) /\ md5OfFile(st).err
              THEN \* main.go:64-67
                   /\ errs' = Append(errs, Err("hash", dl.Name))
                   /\ i' = i + 1
                   /\ UNCHANGED <<pc, fs, downloadCount, requests>>
              ELSE IF ~needDownload(st, dl)
              THEN /\ i' = i + 1
                   /\ UNCHANGED <<pc, fs, downloadCount, requests, errs>>
              ELSE \E resp \in Responses(Data) :
                     /\ requests' = Append(requests, [url |-> fileURL(list, dl), resp |-> resp])
                     /\ LET r == fetchUrl(resp)
                        IN  IF r.err
                            THEN \* main.go:84
                                 /\ pc' = "failed"
                                 /\ UNCHANGED <<fs, i, downloadCount, errs>>
                            ELSE IF md5Mismatch(md5OfData(r.data), dl)
                            THEN \E w \in writeFile(st, r.data) :
                                   /\ fs' = [fs EXCEPT ![fullPath] = w.st]
                                   /\ errs' = IF w.err THEN Append(errs, Err("write", dl.Name)) ELSE errs
                                   /\ downloadCount' = downloadCount + 1
                                   /\ i' = i + 1
                                   /\ pc' = pc
                            ELSE /\ i' = i + 1
                                 /\ UNCHANGED <<pc, fs, downloadCount, errs>>

\* main.go:96, and main returns
DownloadFinish ==
    /\ pc = "downloads"
    /\ i > Len(list.Downloads)
    /\ pc' = "done"
    /\ printed' = [printed EXCEPT !.downloaded = downloadCount]
    /\ UNCHANGED <<arg, cfg, cwdFile, cwdIsSettingsRoot, list, fs, i,
                   deleteCount, downloadCount, requests, errs, fs0, fsPass, cfg0,
                   call, touched, hashed, resolved>>

----------------------------------------------------------------------------
(* Specifications *)

NoPrinted ==
    [attemptedDeletes |-> (-1), deleted |-> (-1),
     attemptedDownloads |-> (-1), downloaded |-> (-1)]

Args == [Client : {"rof"}, Expansion : {"original", "kunark"}]

\* ages of the cache file: just written, and around the threshold
Ages == {0} \cup ((MaxDays - 1)..MaxAge)

CacheFiles ==
    {CfgAbsent, CfgNotDir} \cup {CfgFile(age, b) : age \in Ages, b \in ManifestBytes}

\* the cache files of the settings root, one for each command line
CfgPaths == {filelistFullPath(a) : a \in Args}

\* the cache file of another expansion: an old copy of its manifest
OtherFiles == {CfgFile(MaxDays + 1, 2)}

\* the file named filelistName in a working directory that is not the
\* settings root: none, a manifest, or text that is not a manifest
CwdFiles == {CfgAbsent, CfgFile(0, 1), CfgFile(0, Len(Docs) + 1)}

\* the whole run, from main's first line
Init ==
    /\ pc = "resolve"
    /\ arg \in Args
    /\ cfg \in {f \in [CfgPaths -> CacheFiles \cup OtherFiles] :
                    /\ f[filelistFullPath(arg)] \in CacheFiles
                    /\ \A q \in CfgPaths \ {filelistFullPath(arg)} : f[q] \in OtherFiles}
    /\ cwdIsSettingsRoot \in BOOLEAN
    /\ cwdFile \in (IF cwdIsSettingsRoot THEN {CfgAbsent} ELSE CwdFiles)
    /\ list = ZeroList
    /\ fs \in [Paths -> Status]
    /\ i = 1
    /\ deleteCount = 0
    /\ downloadCount = 0
    /\ requests = <<>>
    /\ errs = <<>>
    /\ printed = NoPrinted
    /\ fs0 = fs
    /\ fsPass = fs
    /\ cfg0 = cfg
    /\ call = [clientName |-> "", expansion |-> ""]
    /\ touched = {}
    /\ hashed = {}
    /\ resolved = "pending"

Next == Resolve \/ DeleteStep \/ DeleteFinish \/ DownloadStep \/ DownloadFinish

Spec == Init /\ [][Next]_vars

\* the two passes on an arbitrary manifest: the state in which main calls
\* HandleDeleteRequests (main.go:34)
InitPasses ==
    /\ pc = "deletes"
    /\ arg = [Client |-> "rof", Expansion |-> "original"]
    /\ cfg = [q \in CfgPaths |-> CfgAbsent]
    /\ cwdIsSettingsRoot = FALSE
    /\ cwdFile = CfgAbsent
    /\ list \in AllManifests
    /\ fs \in [Paths -> Status]
    /\ i = 1
    /\ deleteCount = 0
    /\ downloadCount = 0
    /\ requests = <<>>
    /\ errs = <<>>
    /\ printed = [NoPrinted EXCEPT !.attemptedDeletes = Len(list.Deletes)]
    /\ fs0 = fs
    /\ fsPass = fs
    /\ cfg0 = cfg
    /\ call = [clientName |-> arg.Client, expansion |-> arg.Expansion]
    /\ touched = {filelistFullPath(arg)}
    /\ hashed = {}
    /\ resolved = "ok"

NextPasses == DeleteStep \/ DeleteFinish \/ DownloadStep \/ DownloadFinish

SpecPasses == InitPasses /\ [][NextPasses]_vars

----------------------------------------------------------------------------
(* Vocabulary of the properties *)

DlEntry(k) == list.Downloads[k]
DlPath(k) == Join(rootPath, list.Downloads[k].Name)
DelPath(k) == Join(rootPath, list.Deletes[k].Name)

\* nothing is stored at the path
NoFileAt(st) == st.kind \in {"absent", "enotdir"}

\* the path holds a regular file whose digest is h
HasDigest(st, h) == st.kind = "file" /\ md5OfData(st.data) = h

IsSuccess(resp) == resp.kind = "http" /\ resp.status \in 200..299

LastRequest == requests'[Len(requests')]

\* this step of the download pass made a request and got a response body
FetchedInStep ==
    /\ pc = "downloads"
    /\ Len(requests') = Len(requests) + 1
    /\ LastRequest.resp.kind = "http"

NoErrOfKind(kind) == \A e \in 1..Len(errs) : errs[e].kind # kind

\* every request made for a downloads entry was answered with success and
\* with bytes that hash to the entry's MD5
RemoteConforms ==
    \A k \in 1..Len(list.Downloads) : \A r \in 1..Len(requests) :
        requests[r].url = fileURL(list, DlEntry(k)) =>
            /\ IsSuccess(requests[r].resp)
            /\ md5OfData(requests[r].resp.body) = DlEntry(k).MD5

----------------------------------------------------------------------------
(* C1: after a run that completes normally, with no error reported and a   *)
(* remote whose bytes hash to the declared digests, every downloads path   *)
(* holds content with the declared digest and no deletes path exists.      *)
C1_TreeConforms ==
    (pc = "done" /\ errs = <<>> /\ RemoteConforms) =>
        /\ \A k \in 1..Len(list.Downloads) : HasDigest(fs[DlPath(k)], DlEntry(k).MD5)
        /\ \A k \in 1..Len(list.Deletes) : NoFileAt(fs[DelPath(k)])

(* C2: a download step whose fetched bytes hash to the entry's MD5 leaves  *)
(* the whole tree as it was (so an absent file stays absent and a          *)
(* mismatched file keeps its bytes) and does not count a download.         *)
C2_VerifiedFetchWritesNothing ==
    [][ (FetchedInStep /\ md5OfData(LastRequest.resp.body) = DlEntry(i).MD5)
            => (fs' = fs /\ downloadCount' = downloadCount) ]_vars

C2_Witness ==
    /\ pc = "done"
    /\ \E k \in 1..Len(list.Downloads) : \E r \in 1..Len(requests) :
         /\ requests[r].url = fileURL(list, DlEntry(k))
         /\ requests[r].resp.kind = "http"
         /\ md5OfData(requests[r].resp.body) = DlEntry(k).MD5
         /\ fsPass[DlPath(k)] = Absent
         /\ fs[DlPath(k)] = Absent
         /\ printed.downloaded = 0

(* C3: scenario A: no deletes, one downloads entry whose file does not     *)
(* exist, remote bytes with the declared digest: after the run the file    *)
(* holds those bytes, 0 downloads and 1 attempted are reported.            *)
C3_ScenarioA ==
    (/\ pc = "done"
     /\ Len(list.Deletes) = 0
     /\ Len(list.Downloads) = 1
     /\ fs0[Join(rootPath, list.Downloads[1].Name)] = Absent
     /\ Len(requests) = 1
     /\ IsSuccess(requests[1].resp)
     /\ md5OfData(requests[1].resp.body) = list.Downloads[1].MD5)
    => /\ fs[DlPath(1)] = File(requests[1].resp.body)
       /\ printed.downloaded = 0
       /\ printed.attemptedDownloads = 1

C5_UpToDateIsUntouched ==
    pc \in {"downloads", "done", "failed"} =>
        \A k \in 1..Len(list.Downloads) :
            HasDigest(fsPass[DlPath(k)], DlEntry(k).MD5) =>
                /\ fs[DlPath(k)] = fsPass[DlPath(k)]
                /\ \A r \in 1..Len(requests) :
                     requests[r].url # fileURL(list, DlEntry(k))

C5_Witness ==
    /\ pc = "done"
    /\ Len(requests) >= 1
    /\ \E k \in 1..Len(list.Downloads) : HasDigest(fsPass[DlPath(k)], DlEntry(k).MD5)

(* C6: a download step on an entry whose file is absent, or holds another  *)
(* digest, requests DownloadPrefix followed by the entry's name.           *)
C6_AbsentOrMismatchedIsFetched ==
    [][ (/\ pc = "downloads"
         /\ i <= Len(list.Downloads)
         /\ \/ NoFileAt(fs[DlPath(i)])
            \/ /\ fs[DlPath(i)].kind = "file"
               /\ md5OfData(fs[DlPath(i)].data) # DlEntry(i).MD5)
        => /\ Len(requests') = Len(requests) + 1
           /\ LastRequest.url = list.DownloadPrefix \o DlEntry(i).Name ]_vars

(* C7: when the delete loop has ended without a removal error, no path of  *)
(* a deletes entry exists; the download pass starts from that tree.        *)
C7_DeletedPathsAreGone ==
    NoErrOfKind("remove") =>
        /\ (pc = "deletes" /\ i > Len(list.Deletes)) =>
              \A k \in 1..Len(list.Deletes) : NoFileAt(fs[DelPath(k)])
        /\ pc \in {"downloads", "done", "failed"} =>
              \A k \in 1..Len(list.Deletes) : NoFileAt(fsPass[DelPath(k)])

C7_Witness ==
    /\ pc = "deletes"
    /\ i > Len(list.Deletes)
    /\ NoErrOfKind("remove")
    /\ deleteCount >= 1
    /\ \E k \in 1..Len(list.Deletes) : fs0[DelPath(k)].kind = "dir"
    /\ \E k \in 1..Len(list.Deletes) : fs0[DelPath(k)].kind = "file"

(* C8: resolution requests the manifest when the cache file is missing or  *)
(* older than MaxDays days, and requests nothing when the cache file       *)
(* exists and is younger than MaxDays days.                                *)
C8_RefetchIffStale ==
    pc # "resolve" =>
        /\ (NoFileAt(cache0) \/ (cache0.kind = "file" /\ cache0.age > MaxDays)) =>
              /\ Len(requests) >= 1
              /\ requests[1].url = filelistURL(arg)
        /\ (cache0.kind = "file" /\ cache0.age < MaxDays) =>
              \A r \in 1..Len(requests) : requests[r].url # filelistURL(arg)

C8_Witness ==
    /\ pc = "deletes"
    /\ cache0.kind = "file"
    /\ cache0.age = MaxDays + 1
    /\ yamlUnmarshal(cache0.data).err = FALSE
    /\ Len(requests) = 1
    /\ requests[1].url = filelistURL(arg)
    /\ cacheFile = CfgFile(0, requests[1].resp.body)

(* C9: the manifest that resolution returns is the parse of the bytes      *)
(* stored at the cache path.                                               *)
C9_ListIsParseOfCache ==
    pc \in {"deletes", "downloads", "done"} =>
        /\ cacheFile.kind = "file"
        /\ yamlUnmarshal(cacheFile.data).err = FALSE
        /\ list = yamlUnmarshal(cacheFile.data).list

(* C10: a response that is not a success is an error to the caller: the    *)
(* run has failed, and its body was stored neither as the cache file nor   *)
(* in the tree.                                                            *)
C10_NonSuccessIsAnError ==
    \A r \in 1..Len(requests) :
        (requests[r].resp.kind = "http" /\ ~IsSuccess(requests[r].resp)) =>
            /\ pc = "failed"
            /\ requests[r].url = filelistURL(arg) => cacheFile = cache0
            /\ requests[r].url # filelistURL(arg) => fs = fsPass

(* C11: a transport error on a download request ends the run at that      *)
(* entry: it is the last request, the run has failed with the loop index   *)
(* on that entry, and no later entry was hashed, requested or written.     *)
(* No URL is requested twice in a run.                                     *)
C11_FetchFailureEndsTheRun ==
    /\ \A r \in 1..Len(requests) :
         requests[r].resp.kind = "neterr" =>
            /\ pc = "failed"
            /\ r = Len(requests)
            /\ i <= Len(list.Downloads)
            /\ requests[r].url = fileURL(list, DlEntry(i))
            /\ \A k \in (i + 1)..Len(list.Downloads) :
                 /\ k \notin hashed
                 /\ fs[DlPath(k)] = fsPass[DlPath(k)]
                 /\ \A q \in 1..Len(requests) :
                      requests[q].url # fileURL(list, DlEntry(k))
    /\ \A r, q \in 1..Len(requests) : requests[r].url = requests[q].url => r = q

C11_Witness ==
    /\ pc = "failed"
    /\ Len(list.Downloads) = 2
    /\ i = 1
    /\ Len(requests) = 1
    /\ requests[1].resp.kind = "neterr"
    /\ fs[DlPath(2)].kind = "file"
    /\ md5OfData(fs[DlPath(2)].data) # DlEntry(2).MD5

(* C12: a removal failure does not stop the delete pass: while the pass    *)
(* runs a step is always possible, and once it has ended every deletes     *)
(* path is absent or its removal was reported as failed.  The reported     *)
(* delete count is the number of paths that existed and were removed;      *)
(* paths that did not exist add nothing to it.                             *)
C12_DeletePassIsBestEffort ==
    /\ pc = "deletes" => ENABLED (DeleteStep \/ DeleteFinish)
    /\ pc \in {"downloads", "done", "failed"} =>
         /\ printed.deleted =
               Cardinality({p \in Paths : /\ fs0[p].kind \in {"file", "dir"}
                                          /\ fsPass[p] = Absent})
         /\ \A k \in 1..Len(list.Deletes) :
              \/ fsPass[DelPath(k)] = Absent
              \/ \E e \in 1..Len(errs) : errs[e] = Err("remove", list.Deletes[k].Name)

C12_Witness ==
    /\ pc = "done"
    /\ Len(list.Deletes) = 2
    /\ Len(errs) = 1
    /\ errs[1] = Err("remove", list.Deletes[1].Name)
    /\ fs0[DelPath(2)].kind = "file"
    /\ fs[DelPath(2)] = Absent
    /\ printed.deleted = 1

(* C13: the run is in the failed state exactly when DownloadFileList       *)
(* returned an error or a download request met a transport error.  In      *)
(* every other state that is not the end of the run a step is possible,    *)
(* whatever removals, local digests or writes have failed.                 *)
DownloadFetchFailed ==
    \E r \in 1..Len(requests) :
        /\ requests[r].resp.kind = "neterr"
        /\ requests[r].url # filelistURL(arg)

C13_FailedIffResolveOrFetchFails ==
    /\ pc = "failed" <=> (resolved = "error" \/ DownloadFetchFailed)
    /\ pc \notin {"done", "failed"} => ENABLED Next

C13_Witness ==
    /\ pc = "done"
    /\ \E e \in 1..Len(errs) : errs[e].kind = "remove"
    /\ \E e \in 1..Len(errs) : errs[e].kind = "write"
    /\ \E r \in 1..Len(requests) : ~IsSuccess(requests[r].resp)

(* C14: the count printed at the end of the download pass is the number of *)
(* downloads entries whose fetched bytes were written without a write      *)
(* error.                                                                  *)
WrittenOk(k) ==
    /\ \E r \in 1..Len(requests) :
         /\ requests[r].url = fileURL(list, DlEntry(k))
         /\ requests[r].resp.kind = "http"
         /\ md5OfData(requests[r].resp.body) # DlEntry(k).MD5
    /\ \A e \in 1..Len(errs) : errs[e] # Err("write", DlEntry(k).Name)

C14_CountIsWrittenEntries ==
    pc = "done" =>
        printed.downloaded = Cardinality({k \in 1..Len(list.Downloads) : WrittenOk(k)})

(* C15: when the manifest request meets a transport error, the run has     *)
(* failed with DownloadFileList returning an error and no manifest: the    *)
(* cache file is as it was, nothing of it was parsed into the list, and    *)
(* neither pass has done or printed anything.                              *)
C15_NoFallbackToStaleCache ==
    (/\ Len(requests) >= 1
     /\ requests[1].url = filelistURL(arg)
     /\ requests[1].resp.kind = "neterr")
    => /\ pc = "failed"
       /\ resolved = "error"
       /\ list = ZeroList
       /\ cacheFile = cache0
       /\ Len(requests) = 1
       /\ fs = fs0
       /\ errs = <<>>
       /\ hashed = {}
       /\ printed = NoPrinted

C15_Witness ==
    /\ pc = "failed"
    /\ cwdIsSettingsRoot
    /\ cache0 = CfgFile(MaxDays + 1, 1)
    /\ cacheFile = cache0
    /\ Len(requests) = 1
    /\ requests[1].resp.kind = "neterr"
    /\ \E p \in Paths : fs[p].kind = "file"

(* The phases of a run, as far as they do not depend on a removal having   *)
(* succeeded: before resolution has returned nothing of either pass has    *)
(* happened; during the delete pass nothing of the download pass has       *)
(* happened; once the download pass has started every deletes entry has    *)
(* been processed (its path is absent or its removal was reported as       *)
(* failed) and no path is removed any more.                                *)
DownloadPassStarted == pc \in {"downloads", "done"} \/ (pc = "failed" /\ resolved = "ok")

NoDownloadWork ==
    /\ hashed = {}
    /\ downloadCount = 0
    /\ \A r \in 1..Len(requests) : requests[r].url = filelistURL(arg)
    /\ \A e \in 1..Len(errs) : errs[e].kind = "remove"
    /\ printed.attemptedDownloads = -1

PhasesInOrder ==
    /\ pc = "resolve" =>
         /\ NoDownloadWork
         /\ fs = fs0 /\ errs = <<>> /\ deleteCount = 0 /\ printed = NoPrinted
    /\ pc = "deletes" => (resolved = "ok" /\ NoDownloadWork)
    /\ DownloadPassStarted =>
         /\ resolved = "ok"
         /\ printed.deleted = deleteCount
         /\ \A k \in 1..Len(list.Deletes) :
              \/ fsPass[DelPath(k)] = Absent
              \/ \E e \in 1..Len(errs) : errs[e] = Err("remove", list.Deletes[k].Name)
         /\ \A p \in Paths : fs[p] = Absent => fsPass[p] = Absent

RemovalFailed(name) == \E e \in 1..Len(errs) : errs[e] = Err("remove", name)

(* C16 as stated: the phases are in order, and a path named in deletes and *)
(* in downloads is absent when the download pass starts and is never       *)
(* hashed.                                                                 *)
C16_PhasesInOrderSharedPathAbsent ==
    /\ PhasesInOrder
    /\ DownloadPassStarted =>
         \A k \in 1..Len(list.Deletes) : \A j \in 1..Len(list.Downloads) :
            list.Deletes[k].Name = DlEntry(j).Name =>
               (fsPass[DlPath(j)] = Absent /\ j \notin hashed)

(* C16 as amended: the same, for a shared path whose removal was not       *)
(* reported as failed.                                                     *)
C16_PhasesInOrderSharedPathAbsentIfRemoved ==
    /\ PhasesInOrder
    /\ DownloadPassStarted =>
         \A k \in 1..Len(list.Deletes) : \A j \in 1..Len(list.Downloads) :
            (list.Deletes[k].Name = DlEntry(j).Name /\ ~RemovalFailed(DlEntry(j).Name)) =>
               (fsPass[DlPath(j)] = Absent /\ j \notin hashed)

C16_Witness ==
    /\ pc = "done"
    /\ errs = <<>>
    /\ \E k \in 1..Len(list.Deletes) : \E j \in 1..Len(list.Downloads) :
         /\ list.Deletes[k].Name = DlEntry(j).Name
         /\ HasDigest(fs0[DlPath(j)], DlEntry(j).MD5)
         /\ fsPass[DlPath(j)] = Absent
         /\ \E r \in 1..Len(requests) : requests[r].url = fileURL(list, DlEntry(j))

(* C17: a download step on an entry whose path exists but cannot be        *)
(* hashed (it is a directory, or cannot be opened) reports the error,      *)
(* makes no request, writes nothing, leaves the counter alone and moves    *)
(* on to the next entry.                                                   *)
C17_UnreadableIsSkipped ==
    [][ (/\ pc = "downloads"
         /\ i <= Len(list.Downloads)
         /\ fs[DlPath(i)].kind \in {"dir", "enotdir"})
        => /\ requests' = requests
           /\ fs' = fs
           /\ downloadCount' = downloadCount
           /\ errs' = Append(errs, Err("hash", DlEntry(i).Name))
           /\ i' = i + 1
           /\ pc' = "downloads" ]_vars

C17_Witness ==
    /\ pc = "done"
    /\ Len(list.Downloads) = 2
    /\ fs[DlPath(1)].kind = "dir"
    /\ errs = <<Err("hash", DlEntry(1).Name)>>
    /\ Len(requests) = 1
    /\ requests[1].url = fileURL(list, DlEntry(2))
    /\ printed.downloaded = 1

(* C18: the cache file and the manifest URL of a resolution are those of   *)
(* the two arguments of the call, so for every other (client, expansion)   *)
(* pair the resolution uses a different cache file and a different URL,    *)
(* never reads or writes that pair's cache file, and leaves it as it was   *)
(* when the run started.  DownloadFileList computes both names from the    *)
(* process-wide arg and not from its parameters (main.go:101-103); the     *)
(* only call passes arg.Client and arg.Expansion (main.go:28), so the two  *)
(* agree in every run.                                                     *)
CallArg == [Client |-> call.clientName, Expansion |-> call.expansion]

OtherPairs == {b \in Args : b # CallArg}

ManifestRequested(a) ==
    \E r \in 1..Len(requests) : requests[r].url = filelistURL(a)

C18_ResolutionUsesOnlyItsOwnCache ==
    resolved # "pending" =>
        /\ touched = {filelistFullPath(CallArg)}
        /\ \A b \in OtherPairs :
              /\ filelistFullPath(b) \notin touched
              /\ ~ManifestRequested(b)
              /\ cfg[filelistFullPath(b)] = cfg0[filelistFullPath(b)]

\* a stale cache was fetched again and rewritten, and the cache file of
\* another expansion, which holds a manifest, is as it was
C18_Witness ==
    /\ resolved = "ok"
    /\ cache0 = CfgFile(MaxDays + 1, 1)
    /\ cacheFile = CfgFile(0, 2)
    /\ ManifestRequested(CallArg)
    /\ \E b \in OtherPairs :
          /\ cfg0[filelistFullPath(b)] = CfgFile(MaxDays + 1, 2)
          /\ cfg[filelistFullPath(b)] = cfg0[filelistFullPath(b)]

(* C19: the delete pass only removes: a path that differs from the start   *)
(* of the run is absent and is the path of a deletes entry already         *)
(* processed.  The download pass removes nothing and changes only paths of *)
(* downloads entries whose fetched bytes did not hash to the declared      *)
(* digest; such a path holds a regular file afterwards.  Every other path  *)
(* is as it was when the pass started.                                     *)
MismatchedFetch(k) ==
    \E r \in 1..Len(requests) :
        /\ requests[r].url = fileURL(list, DlEntry(k))
        /\ requests[r].resp.kind = "http"
        /\ md5OfData(requests[r].resp.body) # DlEntry(k).MD5

OnlyRemoved(before, after, upTo) ==
    \A p \in Paths :
        after[p] # before[p] =>
            /\ after[p] = Absent
            /\ \E k \in 1..Len(list.Deletes) : k < upTo /\ DelPath(k) = p

C19_PassesTouchOnlyTheirPaths ==
    /\ pc = "deletes" => OnlyRemoved(fs0, fs, i)
    /\ pc \in {"downloads", "done", "failed"} =>
         /\ OnlyRemoved(fs0, fsPass, Len(list.Deletes) + 1)
         /\ \A p \in Paths :
              fs[p] # fsPass[p] =>
                 /\ fs[p].kind = "file"
                 /\ \E k \in 1..Len(list.Downloads) :
                      k <= i /\ DlPath(k) = p /\ MismatchedFetch(k)

C19_Witness ==
    /\ pc = "done"
    /\ Len(list.Deletes) >= 1
    /\ Len(list.Downloads) = 2
    /\ fs0[DelPath(1)].kind = "file"
    /\ fsPass[DelPath(1)] = Absent
    /\ MismatchedFetch(1)
    /\ fs[DlPath(1)] # fsPass[DlPath(1)]
    /\ ~MismatchedFetch(2)
    /\ Len(requests) = 2
    /\ fs[DlPath(2)] = fsPass[DlPath(2)]

====
